---- MODULE Spec2Model ----
(***************************************************************************)
(* A model of the prayer-time Calculator of go-salat (src/calculator.go):  *)
(* Init, SetDate, Calculate and CalculateAll.                              *)
(*                                                                         *)
(* Numbers.  The code computes with decimal.Decimal; the model computes    *)
(* with integers in fixed point:                                           *)
(*   - an angle in degrees is held in centi-degrees   (AngleScale),        *)
(*   - a time of day in hours is held in seconds      (HourScale),         *)
(*   - a sine or cosine is held in 1/10000            (TrigScale),         *)
(*   - a julian day count is held in centi-days       (JDScale),           *)
(*   - a time.Duration is held in seconds,                                 *)
(*   - a time.Time is the record [unix, off]: the instant in seconds since *)
(*     the model's epoch (day 0, 00:00 UTC) and the UTC offset of its      *)
(*     location in seconds.                                                *)
(* The solar-position helpers, the hour-angle solver, hoursToTime, the     *)
(* julian-day converter and the enumerations are code of the repository    *)
(* that is not part of src/calculator.go; they are modelled from the       *)
(* specification's section 4.                                             *)
(***************************************************************************)
EXTENDS Integers, Sequences, FiniteSets, TLC

VARIABLES
    calc,       \* the Calculator struct (src/calculator.go:18-42)
    phase,      \* "Unconfigured" | "Finalized" | "Dated"
    supplied,   \* the configuration block the calculator was constructed with
    dateArg,    \* the argument of the latest SetDate call
    setDateCalls, \* how many SetDate calls were made, up to MaxSetDateCalls
    last,       \* the latest operation run alone, and what it returned
    calls       \* per concurrent caller, its call in flight

vars == <<calc, phase, supplied, dateArg, setDateCalls, last, calls>>

----------------------------------------------------------------------------
(* Fixed-point scales and units *)

AngleScale == 100
HourScale == 3600
TrigScale == 10000
JDScale == 100
SecondsPerDay == 86400
SecondsPerMinute == 60

\* decimal.New(15, 0): degrees of hour angle per hour (calculator.go:151)
dec15 == 15

\* a cap one pass too long: for i := 0; i <= 5; i++
MaxTriesSix == 5 + 1

\* the refinement loop's cap: for i := 0; i < 5; i++ (calculator.go:149)
MaxTries == 5

----------------------------------------------------------------------------
(* Target: the ordered enumeration of the observances *)

Fajr == 0
Sunrise == 1
Zuhr == 2
Asr == 3
Maghrib == 4
Isha == 5

Targets == Fajr..Isha

(* CalculationMethod and AsrConvention: the names Init switches on *)

CalculationMethods ==
    {"Default", "MWL", "Algerian", "Diyanet", "ISNA", "UmmAlQura", "Gulf",
     "Karachi", "France18", "Tunisia", "Egypt", "EgyptBis", "Kemenag",
     "MUIS", "JAKIM", "UOIF", "France15", "Tehran", "Jafari"}

AsrConventions == {"Shafii", "Hanafi"}

----------------------------------------------------------------------------
(* time.Time *)

\* time.Time{}: the zero time, far before every date of the model
ZeroUnix == -1000000000

ZeroTime == [unix |-> ZeroUnix, off |-> 0]

\* t.Add(d)
TimeAdd(t, d) == [unix |-> t.unix + d, off |-> t.off]

\* t.Sub(u).Seconds(), rounded by math.Round: times are whole seconds
TimeSubSeconds(t, u) == t.unix - u.unix

\* the calendar day (y, m, d) of t in its own location
LocalDay(t) == (t.unix + t.off) \div SecondsPerDay

\* time.Date(y, m, d, 0, 0, sec, 0, loc)
TimeDate(day, sec, off) == [unix |-> day * SecondsPerDay + sec - off, off |-> off]

----------------------------------------------------------------------------
(* Numeric interface: trigonometry over fixed-point decimals *)

SinTable ==
    <<0, 175, 349, 523, 698, 872, 1045, 1219, 1392, 1564,
      1736, 1908, 2079, 2250, 2419, 2588, 2756, 2924, 3090, 3256,
      3420, 3584, 3746, 3907, 4067, 4226, 4384, 4540, 4695, 4848,
      5000, 5150, 5299, 5446, 5592, 5736, 5878, 6018, 6157, 6293,
      6428, 6561, 6691, 6820, 6947, 7071, 7193, 7314, 7431, 7547,
      7660, 7771, 7880, 7986, 8090, 8192, 8290, 8387, 8480, 8572,
      8660, 8746, 8829, 8910, 8988, 9063, 9135, 9205, 9272, 9336,
      9397, 9455, 9511, 9563, 9613, 9659, 9703, 9744, 9781, 9816,
      9848, 9877, 9903, 9925, 9945, 9962, 9976, 9986, 9994, 9998,
      10000>>

Abs(x) == IF x < 0 THEN -x ELSE x

\* sine of an angle of the first quadrant, 0..90 degrees, interpolated
SinQ(a) ==
    LET k == a \div AngleScale
        r == a % AngleScale
    IN  IF k >= 90 THEN SinTable[91]
        ELSE SinTable[k + 1] + ((SinTable[k + 2] - SinTable[k + 1]) * r) \div AngleScale

Sin(a) ==
    LET m == a % (360 * AngleScale)
    IN  IF m <= 90 * AngleScale THEN SinQ(m)
        ELSE IF m <= 180 * AngleScale THEN SinQ(180 * AngleScale - m)
        ELSE IF m <= 270 * AngleScale THEN -SinQ(m - 180 * AngleScale)
        ELSE -SinQ(360 * AngleScale - m)

Cos(a) == Sin(a + 90 * AngleScale)

\* tangent; at 90 degrees the quotient is the largest value the scale holds
SinOverCos(sin, cos) ==
    IF cos = 0 THEN TrigScale * TrigScale
    ELSE IF cos > 0 THEN (sin * TrigScale) \div cos
    ELSE -((sin * TrigScale) \div (-cos))

Tan(a) == SinOverCos(Sin(a), Cos(a))

\* cosine and tangent at the whole degrees, for the inverse functions
CosDeg == [j \in 0..180 |-> Cos(j * AngleScale)]

TanDeg == [j \in 0..89 |-> Tan(j * AngleScale)]

\* the whole degree k in lo..hi-1 with CosDeg[k] >= c > CosDeg[k + 1]
RECURSIVE ArcCosDegree(_, _, _)
ArcCosDegree(c, lo, hi) ==
    IF hi - lo <= 1 THEN lo
    ELSE LET mid == (lo + hi) \div 2
         IN  IF CosDeg[mid] >= c THEN ArcCosDegree(c, mid, hi)
             ELSE ArcCosDegree(c, lo, mid)

\* arccos of c in [-1, 1], in 0..180 degrees, interpolated
ArcCosWithin(c, k) ==
    k * AngleScale + ((CosDeg[k] - c) * AngleScale) \div (CosDeg[k] - CosDeg[k + 1])

ArcCos(c) ==
    IF c >= TrigScale THEN 0
    ELSE IF c <= -TrigScale THEN 180 * AngleScale
    ELSE ArcCosWithin(c, ArcCosDegree(c, 0, 180))

\* the whole degree k in lo..hi-1 with TanDeg[k] <= y, and y < TanDeg[k + 1] below 89
RECURSIVE ArcTanDegree(_, _, _)
ArcTanDegree(y, lo, hi) ==
    IF hi - lo <= 1 THEN lo
    ELSE LET mid == (lo + hi) \div 2
         IN  IF TanDeg[mid] <= y THEN ArcTanDegree(y, mid, hi)
             ELSE ArcTanDegree(y, lo, mid)

\* arctan of y >= 0, in 0..89 degrees, interpolated
ArcTanWithin(y, k) ==
    IF k = 89 THEN 89 * AngleScale
    ELSE k * AngleScale + ((y - TanDeg[k]) * AngleScale) \div (TanDeg[k + 1] - TanDeg[k])

ArcTanPos(y) == ArcTanWithin(y, ArcTanDegree(y, 0, 90))

ArcTan(y) == IF y >= 0 THEN ArcTanPos(y) ELSE -ArcTanPos(-y)

\* 1 / x at the trigonometric scale
Reciprocal(x) ==
    IF x > 0 THEN (TrigScale * TrigScale) \div x
    ELSE -((TrigScale * TrigScale) \div (-x))

RECURSIVE ISqrtFrom(_, _)
ISqrtFrom(n, r) == IF (r + 1) * (r + 1) > n THEN r ELSE ISqrtFrom(n, r + 1)

ISqrt(n) == ISqrtFrom(n, 0)

\* x.Div(dec15), x an angle in degrees, the quotient in hours
DegreesDiv15(x) == (x * (HourScale \div AngleScale)) \div dec15

----------------------------------------------------------------------------
(* Day-number converter and solar position module *)

\* julianday.Convert(t): the continuous day count of the instant t
Convert(t) == t.unix \div (SecondsPerDay \div JDScale)

\* the sun's mean anomaly-like angle of the day count, in degrees
YearAngle(jd) == ((jd - 81 * JDScale) * 360 * AngleScale) \div (365 * JDScale)

\* the equation of time of the day count, in hours
EquationOfTime(jd) ==
    LET b == YearAngle(jd)
    IN  (592 * Sin(2 * b) - 452 * Cos(b) - 90 * Sin(b)) \div TrigScale

\* calc.getSunDeclination(jd), in degrees
getSunDeclination(c, jd) == (2344 * Sin(YearAngle(jd))) \div TrigScale

\* calc.getTransitTime(jd): the local transit as an hour of the day
getTransitTime(c, jd) ==
    12 * HourScale + c.timezone - DegreesDiv15(c.longitude) - EquationOfTime(jd)

\* calc.getSunAltitude(target, jd), in degrees
getSunAltitude(c, target, jd) ==
    CASE target = Fajr -> -c.fajrAngle
      [] target = Isha -> -c.ishaAngle
      [] target \in {Sunrise, Maghrib} ->
            IF c.IgnoreElevation THEN -83
            ELSE -83 - (347 * ISqrt(c.Elevation)) \div AngleScale
      [] target = Asr ->
            LET d == Abs(c.latitude - getSunDeclination(c, jd))
            IN  ArcTan(Reciprocal(c.asrCoefficient * TrigScale + Tan(d)))
      [] OTHER -> 0

\* calc.getHourAngle(sunAltitude, sunDeclination): the hour angle in degrees,
\* or "not applicable" when the altitude is never reached that day
CosHourAngle(c, sunAltitude, sunDeclination) ==
    (Sin(sunAltitude) * TrigScale - Sin(c.latitude) * Sin(sunDeclination))
        \div ((Cos(c.latitude) * Cos(sunDeclination)) \div TrigScale)

HourAngleOf(cosHourAngle) ==
    IF cosHourAngle > TrigScale \/ cosHourAngle < -TrigScale
    THEN [hourAngle |-> 0, isNA |-> TRUE]
    ELSE [hourAngle |-> ArcCos(cosHourAngle), isNA |-> FALSE]

getHourAngle(c, sunAltitude, sunDeclination) ==
    HourAngleOf(CosHourAngle(c, sunAltitude, sunDeclination))

\* the hours to the unit the configuration asks for: the whole second with
\* PreciseToSeconds, else the nearest whole minute
WholeUnits(c, hours) ==
    IF c.PreciseToSeconds THEN hours
    ELSE ((hours + SecondsPerMinute \div 2) \div SecondsPerMinute) * SecondsPerMinute

\* calc.hoursToTime(hours): the hour of the active date's day as a time,
\* to the whole second or the whole minute
hoursToTime(c, hours) ==
    TimeDate(LocalDay(c.date), WholeUnits(c, hours), c.date.off)

----------------------------------------------------------------------------
(* Calculator: construction and Init *)

EmptyMap == [t \in {} |-> 0]

\* &Calculator{...}: the exported fields as given, every other field zero
NewCalculator(cfg) ==
    [Latitude |-> cfg.Latitude, Longitude |-> cfg.Longitude,
     Elevation |-> cfg.Elevation,
     FajrAngle |-> cfg.FajrAngle, IshaAngle |-> cfg.IshaAngle,
     MaghribDuration |-> cfg.MaghribDuration,
     CalculationMethod |-> cfg.CalculationMethod,
     AsrConvention |-> cfg.AsrConvention,
     PreciseToSeconds |-> cfg.PreciseToSeconds,
     IgnoreElevation |-> cfg.IgnoreElevation,
     TimeCorrection |-> cfg.TimeCorrection,
     AngleCorrection |-> cfg.AngleCorrection,
     latitude |-> 0, longitude |-> 0, fajrAngle |-> 0, ishaAngle |-> 0,
     asrCoefficient |-> 0,
     date |-> ZeroTime, timezone |-> 0, transitTime |-> 0, sunDeclination |-> 0]

\* the switch on calc.CalculationMethod: the method's defaults
MethodDefaults(method) ==
    CASE method \in {"Default", "MWL", "Algerian", "Diyanet"} ->
            [fajrAngle |-> 1800, ishaAngle |-> 1700, maghribDuration |-> 0]
      [] method = "ISNA" ->
            [fajrAngle |-> 1500, ishaAngle |-> 1500, maghribDuration |-> 0]
      [] method = "UmmAlQura" ->
            [fajrAngle |-> 1850, ishaAngle |-> 0, maghribDuration |-> 90 * SecondsPerMinute]
      [] method = "Gulf" ->
            [fajrAngle |-> 1950, ishaAngle |-> 0, maghribDuration |-> 90 * SecondsPerMinute]
      [] method \in {"Karachi", "France18", "Tunisia"} ->
            [fajrAngle |-> 1800, ishaAngle |-> 1800, maghribDuration |-> 0]
      [] method = "Egypt" ->
            [fajrAngle |-> 1950, ishaAngle |-> 1750, maghribDuration |-> 0]
      [] method \in {"EgyptBis", "Kemenag", "MUIS", "JAKIM"} ->
            [fajrAngle |-> 2000, ishaAngle |-> 1800, maghribDuration |-> 0]
      [] method = "UOIF" ->
            [fajrAngle |-> 1200, ishaAngle |-> 1200, maghribDuration |-> 0]
      [] method = "France15" ->
            [fajrAngle |-> 1500, ishaAngle |-> 1500, maghribDuration |-> 0]
      [] method = "Tehran" ->
            [fajrAngle |-> 1770, ishaAngle |-> 1400, maghribDuration |-> 0]
      [] method = "Jafari" ->
            [fajrAngle |-> 1600, ishaAngle |-> 1400, maghribDuration |-> 0]
      [] OTHER ->
            [fajrAngle |-> 0, ishaAngle |-> 0, maghribDuration |-> 0]

\* the override without its zero test: the caller's value always wins
OverrideAlways(given, default) == given

\* if calc.X != 0 { x = calc.X }
Override(given, default) == IF given # 0 THEN given ELSE default

\* the switch on calc.AsrConvention
AsrCoefficientOf(convention) == IF convention = "Hanafi" THEN 2 ELSE 1

\* calc.Init()
InitCalc(c) ==
    LET d == MethodDefaults(c.CalculationMethod)
    IN  [c EXCEPT
            !.latitude = c.Latitude,
            !.longitude = c.Longitude,
            !.fajrAngle = Override(c.FajrAngle, d.fajrAngle),
            !.ishaAngle = Override(c.IshaAngle, d.ishaAngle),
            !.MaghribDuration = Override(c.MaghribDuration, d.maghribDuration),
            !.asrCoefficient = AsrCoefficientOf(c.AsrConvention)]

----------------------------------------------------------------------------
(* SetDate *)

\* SetDate keeping the transit time and declination of a date set earlier
PerDateFieldsStale(c, date) ==
    LET noon == TimeDate(LocalDay(date), 12 * HourScale, date.off)
        tz   == (noon.off * HourScale) \div 3600
        c1   == [c EXCEPT !.date = noon, !.timezone = tz]
        jd   == Convert(noon)
    IN  [date |-> noon, timezone |-> tz,
         transitTime |-> IF c.date = ZeroTime THEN getTransitTime(c1, jd)
                         ELSE c.transitTime,
         sunDeclination |-> IF c.date = ZeroTime THEN getSunDeclination(c1, jd)
                            ELSE c.sunDeclination]

\* the per-date fields SetDate assigns
PerDateFields(c, date) ==
    LET noon == TimeDate(LocalDay(date), 12 * HourScale, date.off)
        tz   == (noon.off * HourScale) \div 3600
        c1   == [c EXCEPT !.date = noon, !.timezone = tz]
        jd   == Convert(noon)
    IN  [date |-> noon, timezone |-> tz,
         transitTime |-> getTransitTime(c1, jd),
         sunDeclination |-> getSunDeclination(c1, jd)]

\* calc.SetDate(date)
SetDateCalc(c, date) ==
    LET f == PerDateFields(c, date)
    IN  [c EXCEPT !.date = f.date, !.timezone = f.timezone,
                  !.transitTime = f.transitTime,
                  !.sunDeclination = f.sunDeclination]

----------------------------------------------------------------------------
(* Calculate *)

\* the fixed duration taken only when no Isha angle is resolved
UsesMaghribDurationUnlessAngle(c, target) ==
    target = Isha /\ c.MaghribDuration # 0 /\ c.ishaAngle = 0

\* target == Isha && calc.MaghribDuration != 0
UsesMaghribDuration(c, target) == target = Isha /\ c.MaghribDuration # 0

\* the switch on the target's place relative to Zuhr
SignedHours(target, transitTime, hourAngle) ==
    IF target > Zuhr THEN transitTime + DegreesDiv15(hourAngle)
    ELSE IF target < Zuhr THEN transitTime - DegreesDiv15(hourAngle)
    ELSE transitTime

\* the angle correction added as if it were hours: Div(dec15) forgotten
WithAngleCorrectionRaw(c, target, hours) ==
    IF target \in DOMAIN c.AngleCorrection
    THEN hours + c.AngleCorrection[target] * (HourScale \div AngleScale)
    ELSE hours

\* if correction, exist := calc.AngleCorrection[target]; exist { ... }
WithAngleCorrection(c, target, hours) ==
    IF target \in DOMAIN c.AngleCorrection
    THEN hours + DegreesDiv15(c.AngleCorrection[target])
    ELSE hours

\* correction.Hours(), as a decimal
DurationHours(d) == (d * HourScale) \div 3600

\* if correction, exist := calc.TimeCorrection[target]; exist { ... }
WithTimeCorrection(c, target, hours) ==
    IF target \in DOMAIN c.TimeCorrection
    THEN hours + DurationHours(c.TimeCorrection[target])
    ELSE hours

\* math.Round(prevTargetTime.Sub(targetTime).Seconds()) == 0
Converged(prevTargetTime, targetTime) == TimeSubSeconds(prevTargetTime, targetTime) = 0

\* what a call returns: the time and the boolean (`flag`; the callers bind it
\* to isNA), with a log of the work done: one record per pass of the loop, and
\* the number of getSunAltitude calls
Returned(time, flag, L) ==
    [time |-> time, flag |-> flag, iters |-> L.iters, altCalls |-> L.altCalls]

\* the locals before the loop ("Prepare necessary variables")
InitialLocals(c, target) ==
    [i |-> 0,
     transitTime |-> c.transitTime,
     sunDeclination |-> c.sunDeclination,
     sunAltitude |-> getSunAltitude(c, target, Convert(c.date)),
     targetTime |-> ZeroTime,
     iters |-> << >>,
     altCalls |-> 1]

\* the locals after a pass: the pass logged, and its candidate (the zero
\* time of a pass that returns "not applicable" is never read)
Recorded(L, pass) ==
    [L EXCEPT !.targetTime = IF pass.isNA THEN @ ELSE pass.time,
              !.iters = Append(@, pass)]

\* "Refine the transit time, sun declination and sun altitude" for the
\* candidate's day count jd
Refined(c, target, L, jd) ==
    [L EXCEPT !.i = @ + 1,
              !.transitTime = getTransitTime(c, jd),
              !.sunDeclination = getSunDeclination(c, jd),
              !.sunAltitude = IF target = Asr THEN getSunAltitude(c, target, jd)
                              ELSE @,
              !.altCalls = IF target = Asr THEN @ + 1 ELSE @]

\* the hours of a pass whose hour angle was solved, as the pass's record
Candidate(c, target, L, hourAngle, hours) ==
    [isNA |-> FALSE, hourAngle |-> hourAngle, transitTime |-> L.transitTime,
     hours |-> hours, time |-> hoursToTime(c, hours)]

\* a pass whose hour angle is "not applicable", as the pass's record
NotApplicable(L) ==
    [isNA |-> TRUE, hourAngle |-> 0, transitTime |-> L.transitTime,
     hours |-> 0, time |-> ZeroTime]

\* the pass from the solved hour angle ha to its record
PassRecord(c, target, L, ha) ==
    IF ha.isNA THEN NotApplicable(L)
    ELSE Candidate(c, target, L, ha.hourAngle,
            WithTimeCorrection(c, target,
                WithAngleCorrection(c, target,
                    SignedHours(target, L.transitTime, ha.hourAngle))))

\* the end of a pass: return "not applicable", return the converged
\* candidate, or refine and go on
PassOutcome(c, target, L, pass) ==
    IF pass.isNA
    THEN [done |-> TRUE, ret |-> Returned(ZeroTime, TRUE, Recorded(L, pass)),
          next |-> Recorded(L, pass)]
    ELSE IF Converged(L.targetTime, pass.time)
    THEN [done |-> TRUE, ret |-> Returned(pass.time, FALSE, Recorded(L, pass)),
          next |-> Recorded(L, pass)]
    ELSE [done |-> FALSE, ret |-> Returned(pass.time, FALSE, Recorded(L, pass)),
          next |-> Refined(c, target, Recorded(L, pass), Convert(pass.time))]

\* one pass of the loop "for i := 0; i < 5; i++" with the locals L: either
\* the call returns (done, ret) or the loop goes on with new locals (next)
LoopPass(c, target, L) ==
    IF L.i >= MaxTries
    THEN [done |-> TRUE, ret |-> Returned(L.targetTime, FALSE, L), next |-> L]
    ELSE PassOutcome(c, target, L,
            PassRecord(c, target, L,
                getHourAngle(c, L.sunAltitude, L.sunDeclination)))

\* the loop from the locals L to the return
RECURSIVE Refine(_, _, _)

RefineFrom(c, target, s) == IF s.done THEN s.ret ELSE Refine(c, target, s.next)

Refine(c, target, L) == RefineFrom(c, target, LoopPass(c, target, L))

\* the fixed-duration path, given what Calculate(Maghrib) returned
AddMaghribDuration(c, m) ==
    IF m.flag THEN [m EXCEPT !.time = ZeroTime, !.flag = TRUE]
    ELSE [m EXCEPT !.time = TimeAdd(m.time, c.MaghribDuration), !.flag = FALSE]

\* calc.Calculate(target)
RECURSIVE Calculate(_, _)
Calculate(c, target) ==
    IF UsesMaghribDuration(c, target)
    THEN AddMaghribDuration(c, Calculate(c, Maghrib))
    ELSE Refine(c, target, InitialLocals(c, target))

\* a pointer receiver whose loop refines calc.transitTime and
\* calc.sunDeclination in place
ReceiverAfterPointer(c, L) ==
    [c EXCEPT !.transitTime = L.transitTime, !.sunDeclination = L.sunDeclination]

\* the caller's struct after a pass of the loop left the locals L: Calculate
\* and CalculateAll have a value receiver, and the loop assigns locals only
ReceiverAfter(c, L) == c

----------------------------------------------------------------------------
(* CalculateAll *)

\* for target := Fajr; target < Isha; target++
LoopTargetsShort == Fajr..Maghrib

\* for target := Fajr; target <= Isha; target++
LoopTargets == Fajr..Isha

\* if targetTime, isNA := calc.Calculate(target); !isNA { ... }
Kept(r) == ~r.flag

\* calc.CalculateAll()
KeptTimes(r) == [t \in {u \in DOMAIN r : Kept(r[u])} |-> r[t].time]

CalculateAll(c) == KeptTimes([t \in LoopTargets |-> Calculate(c, t)])

----------------------------------------------------------------------------
(* The configurations and dates explored *)

NumLatitudes == 3
NumDates == 3

\* the count of SetDate calls stops here
MaxSetDateCalls == 2

\* 21.42 N, 52 N, 70 N (inside the polar circle), 35 S
LatitudeTable == <<2142, 5200, 7000, -3500>>

\* days of the model's year: the June solstice, late February, late August,
\* late July
DayTable == <<171, 55, 235, 204>>

Latitudes == {LatitudeTable[i] : i \in 1..NumLatitudes}

\* the dates handed to SetDate, at UTC+3: an early hour of each day, and a
\* late hour of the first
DateArgs ==
    {TimeDate(DayTable[i], 1 * HourScale, 3 * HourScale) : i \in 1..NumDates}
    \cup {TimeDate(DayTable[1], 22 * HourScale, 3 * HourScale)}

AngleCorrectionChoices == {EmptyMap, (Fajr :> -50) @@ (Zuhr :> 25) @@ (Isha :> 100)}

TimeCorrectionChoices == {EmptyMap, (Sunrise :> -120) @@ (Maghrib :> 180) @@ (Isha :> 300)}

\* the configurations of Spec: a method with twilight angles and one with a
\* fixed Maghrib duration, at every latitude, with either convention, with and
\* without a duration of the caller's and correction tables
ConfigSpace ==
    [Latitude : Latitudes, Longitude : {3983}, Elevation : {100},
     FajrAngle : {0}, IshaAngle : {0},
     MaghribDuration : {0, 3600},
     CalculationMethod : {"MWL", "UmmAlQura"},
     AsrConvention : AsrConventions,
     PreciseToSeconds : BOOLEAN,
     IgnoreElevation : {FALSE},
     TimeCorrection : TimeCorrectionChoices,
     AngleCorrection : AngleCorrectionChoices]

\* the configurations of SpecConfig: every method and convention, each of the
\* three overrides given or left zero
MethodConfigSpace ==
    [Latitude : {LatitudeTable[1]}, Longitude : {3983}, Elevation : {100},
     FajrAngle : {0, 1600}, IshaAngle : {0, 1500},
     MaghribDuration : {0, 3600},
     CalculationMethod : CalculationMethods,
     AsrConvention : AsrConventions,
     PreciseToSeconds : BOOLEAN,
     IgnoreElevation : {FALSE},
     TimeCorrection : {EmptyMap},
     AngleCorrection : {EmptyMap}]

\* the configurations of SpecConcurrent: 52 N, with corrections, with and
\* without a fixed duration
ConcurrentConfigSpace ==
    [Latitude : {LatitudeTable[2]}, Longitude : {3983}, Elevation : {100},
     FajrAngle : {0}, IshaAngle : {0},
     MaghribDuration : {0, 3600},
     CalculationMethod : {"MWL"},
     AsrConvention : {"Shafii"},
     PreciseToSeconds : BOOLEAN,
     IgnoreElevation : {FALSE},
     TimeCorrection : TimeCorrectionChoices \ {EmptyMap},
     AngleCorrection : AngleCorrectionChoices \ {EmptyMap}]

----------------------------------------------------------------------------
(* The state machine *)

\* the goroutines that call Calculate and CalculateAll concurrently
Callers == {"a", "b"}

\* a caller with no call in flight
Idle ==
    [pc |-> "idle", op |-> "none", asked |-> Zuhr, target |-> Zuhr,
     recv |-> << >>, L |-> << >>, all |-> EmptyMap,
     time |-> ZeroTime, flag |-> FALSE]

\* what `last` holds after an operation that returns the calculator itself
NoResult(op) ==
    [op |-> op, target |-> Zuhr, time |-> ZeroTime, flag |-> FALSE,
     iters |-> << >>, altCalls |-> 0, all |-> EmptyMap]

InitFrom(configs) ==
    /\ supplied \in configs
    /\ calc = NewCalculator(supplied)
    /\ phase = "Unconfigured"
    /\ dateArg = ZeroTime
    /\ setDateCalls = 0
    /\ last = NoResult("new")
    /\ calls = [p \in Callers |-> Idle]

Init == InitFrom(ConfigSpace)

InitConfig == InitFrom(MethodConfigSpace)

InitConcurrent == InitFrom(ConcurrentConfigSpace)

DoInit ==
    /\ calc' = InitCalc(calc)
    /\ phase' = IF phase = "Unconfigured" THEN "Finalized" ELSE phase
    /\ last' = NoResult("Init")
    /\ UNCHANGED <<supplied, dateArg, setDateCalls, calls>>

DoSetDate(date) ==
    /\ phase # "Unconfigured"
    /\ calc' = SetDateCalc(calc, date)
    /\ phase' = "Dated"
    /\ dateArg' = date
    /\ setDateCalls' = IF setDateCalls < MaxSetDateCalls THEN setDateCalls + 1
                       ELSE setDateCalls
    /\ last' = NoResult("SetDate")
    /\ UNCHANGED <<supplied, calls>>

\* what `last` holds after Calculate(target) returned r
CallResult(target, r) ==
    [op |-> "Calculate", target |-> target, time |-> r.time, flag |-> r.flag,
     iters |-> r.iters, altCalls |-> r.altCalls, all |-> EmptyMap]

\* a whole Calculate call, run alone
DoCalculate(target) ==
    /\ phase = "Dated"
    /\ last' = CallResult(target, Calculate(calc, target))
    /\ UNCHANGED <<calc, phase, supplied, dateArg, setDateCalls, calls>>

\* a whole CalculateAll call, run alone
DoCalculateAll ==
    /\ phase = "Dated"
    /\ last' = [NoResult("CalculateAll") EXCEPT !.all = CalculateAll(calc)]
    /\ UNCHANGED <<calc, phase, supplied, dateArg, setDateCalls, calls>>

Next ==
    \/ DoInit
    \/ \E date \in DateArgs : DoSetDate(date)
    \/ \E target \in Targets : DoCalculate(target)
    \/ DoCalculateAll

Spec == Init /\ [][Next]_vars

\* Init alone, over every method
SpecConfig == InitConfig /\ [][DoInit]_vars

(* Concurrent callers: a call is taken pass by pass, so that the passes of *)
(* two calls interleave.  Init and SetDate run only while no call is in    *)
(* flight: the calculator is not safe for use concurrent with them.        *)

Quiet == \A p \in Callers : calls[p].pc = "idle"

\* the entry of Calculate(target) on the copy c of the receiver: the target
\* the loop runs for, and its locals
Enter(c, target) ==
    LET t == IF UsesMaghribDuration(c, target) THEN Maghrib ELSE target
    IN  [target |-> t, L |-> InitialLocals(c, t)]

\* caller p calls calc.Calculate(target): the receiver is copied
BeginCalculate(p, target) ==
    /\ phase = "Dated"
    /\ calls[p].pc = "idle"
    /\ LET e == Enter(calc, target)
       IN  calls' = [calls EXCEPT ![p] =
                [Idle EXCEPT !.pc = "running", !.op = "Calculate",
                             !.asked = target, !.target = e.target,
                             !.recv = calc, !.L = e.L]]
    /\ UNCHANGED <<calc, phase, supplied, dateArg, setDateCalls, last>>

\* caller p calls calc.CalculateAll(): the receiver is copied, and the loop
\* over the targets starts with Calculate(Fajr)
BeginCalculateAll(p) ==
    /\ phase = "Dated"
    /\ calls[p].pc = "idle"
    /\ LET e == Enter(calc, Fajr)
       IN  calls' = [calls EXCEPT ![p] =
                [Idle EXCEPT !.pc = "running", !.op = "CalculateAll",
                             !.asked = Fajr, !.target = e.target,
                             !.recv = calc, !.L = e.L]]
    /\ UNCHANGED <<calc, phase, supplied, dateArg, setDateCalls, last>>

\* caller p after its Calculate(asked) returned r: Calculate returns to its
\* caller; CalculateAll keeps the time and goes on to the next target, or
\* returns its map after Isha
AfterCalculate(k, r) ==
    IF k.op = "Calculate"
    THEN [k EXCEPT !.pc = "returned", !.time = r.time, !.flag = r.flag]
    ELSE LET all == IF Kept(r) THEN (k.asked :> r.time) @@ k.all ELSE k.all
         IN  IF k.asked + 1 \in LoopTargets
             THEN LET e == Enter(k.recv, k.asked + 1)
                  IN  [k EXCEPT !.asked = k.asked + 1, !.target = e.target,
                                !.L = e.L, !.all = all]
             ELSE [k EXCEPT !.pc = "returned", !.all = all]

\* what Calculate(k.asked) returns when its loop returned ret
ReturnOf(k, ret) ==
    IF k.target # k.asked THEN AddMaghribDuration(k.recv, ret) ELSE ret

\* the pass s of caller p, whose call is k
PassEffect(p, k, s) ==
    /\ calls' = [calls EXCEPT ![p] =
           IF s.done THEN AfterCalculate([k EXCEPT !.L = s.next], ReturnOf(k, s.ret))
           ELSE [k EXCEPT !.L = s.next]]
    /\ calc' = ReceiverAfter(calc, s.next)

\* caller p runs one pass of the loop on its copy of the receiver
Pass(p) ==
    /\ calls[p].pc = "running"
    /\ PassEffect(p, calls[p], LoopPass(calls[p].recv, calls[p].target, calls[p].L))
    /\ UNCHANGED <<phase, supplied, dateArg, setDateCalls, last>>

\* caller p takes the result; it may call again
Finish(p) ==
    /\ calls[p].pc = "returned"
    /\ calls' = [calls EXCEPT ![p] = Idle]
    /\ UNCHANGED <<calc, phase, supplied, dateArg, setDateCalls, last>>

NextConcurrent ==
    \/ Quiet /\ DoInit
    \/ \E date \in DateArgs : Quiet /\ DoSetDate(date)
    \/ \E p \in Callers, target \in Targets : BeginCalculate(p, target)
    \/ \E p \in Callers : BeginCalculateAll(p)
    \/ \E p \in Callers : Pass(p)
    \/ \E p \in Callers : Finish(p)

SpecConcurrent == InitConcurrent /\ [][NextConcurrent]_vars

----------------------------------------------------------------------------
(* Properties *)

\* the call that returned r computed a time: the hour-angle solver signalled
\* "not applicable" in no pass of it (the target is available)
Computed(r) == \A k \in DOMAIN r.iters : ~r.iters[k].isNA

\* the latest operation was Calculate on the fixed-duration path
OnDurationPath ==
    last.op = "Calculate" /\ last.target = Isha /\ calc.MaghribDuration # 0

\* C1: on an Init'ed and dated calculator Zuhr is always available:
\* Calculate(Zuhr) always computes a time, and the map of CalculateAll always
\* has the key Zuhr.
C1_ZuhrAlwaysAvailable ==
    /\ (last.op = "Calculate" /\ last.target = Zuhr) =>
            Computed(last) /\ last.time # ZeroTime
    /\ last.op = "CalculateAll" => Zuhr \in DOMAIN last.all

\* C2: the boolean Calculate returns is true when a time was computed and
\* false when the hour-angle solver signalled "not applicable".
C2_FlagTrueWhenAvailable ==
    last.op = "Calculate" => (last.flag <=> Computed(last))

\* C3: with a non-zero MaghribDuration in effect, Calculate(Isha) is
\* Calculate(Maghrib) plus exactly that duration when Maghrib is available and
\* is unavailable, as Maghrib is, when it is not; the call does Maghrib's work
\* and no more (no altitude, no hour-angle solve for Isha), and neither the
\* Isha angle nor Isha's own corrections change what it returns.
C3_FixedDurationIsha ==
    OnDurationPath =>
        LET m == Calculate(calc, Maghrib)
            noIsha(f) == [t \in DOMAIN f \ {Isha} |-> f[t]]
            other == Calculate([calc EXCEPT !.ishaAngle = calc.ishaAngle + 300,
                                            !.AngleCorrection = noIsha(@),
                                            !.TimeCorrection = noIsha(@)], Isha)
        IN  /\ last.flag = m.flag
            /\ ~Computed(m) => last.time = ZeroTime
            /\ Computed(m) =>
                  /\ last.time.unix = m.time.unix + calc.MaghribDuration
                  /\ last.time.off = m.time.off
            /\ last.iters = m.iters
            /\ last.altCalls = m.altCalls
            /\ other.flag = last.flag
            /\ other.time = last.time

\* C3, reached: a fixed-duration Isha with corrections of Isha's own in both
\* tables, an Isha angle resolved, and Maghrib available.
C3_Witness ==
    /\ OnDurationPath
    /\ Computed(last)
    /\ calc.ishaAngle # 0
    /\ Isha \in DOMAIN calc.AngleCorrection
    /\ Isha \in DOMAIN calc.TimeCorrection

\* C4: the map of CalculateAll has exactly the targets from Fajr to Isha for
\* which Calculate computes a time, each with the time Calculate returns.
C4_AllMatchesEach ==
    last.op = "CalculateAll" =>
        /\ DOMAIN last.all = {t \in Targets : Computed(Calculate(calc, t))}
        /\ \A t \in DOMAIN last.all : last.all[t] = Calculate(calc, t).time

\* C4, reached: a CalculateAll that kept some targets and omitted others.
C4_Witness ==
    /\ last.op = "CalculateAll"
    /\ DOMAIN last.all # {}
    /\ \E t \in Targets : t \notin DOMAIN last.all /\ ~Computed(Calculate(calc, t))

\* C5: a Calculate call makes at most 5 hour-angle solves; a call off the
\* fixed-duration path that makes 5 without a "not applicable" returns its
\* fifth candidate, converged or not, with the boolean every computed time is
\* returned with (false, line 196) and not that of the unavailable outcome.
C5_AtMostFiveTries ==
    last.op = "Calculate" =>
        /\ Len(last.iters) <= 5
        /\ (Len(last.iters) = 5 /\ Computed(last) /\ ~OnDurationPath) =>
                /\ last.time = last.iters[5].time
                /\ last.time # ZeroTime
                /\ ~last.flag

\* C5, reached: a call whose fifth candidate still differs from its fourth.
C5_Witness ==
    /\ last.op = "Calculate"
    /\ ~OnDurationPath
    /\ Len(last.iters) = 5
    /\ Computed(last)
    /\ last.iters[5].time # last.iters[4].time

\* C6: after Init the Fajr angle, the Isha angle and the Maghrib duration are
\* each the caller's value when it is non-zero and the method's default
\* otherwise, and the Asr coefficient is 2 for Hanafi and 1 otherwise.
C6_InitResolves ==
    phase # "Unconfigured" =>
        LET d == MethodDefaults(supplied.CalculationMethod)
        IN  /\ calc.fajrAngle =
                 IF supplied.FajrAngle # 0 THEN supplied.FajrAngle ELSE d.fajrAngle
            /\ calc.ishaAngle =
                 IF supplied.IshaAngle # 0 THEN supplied.IshaAngle ELSE d.ishaAngle
            /\ calc.MaghribDuration =
                 IF supplied.MaghribDuration # 0 THEN supplied.MaghribDuration
                 ELSE d.maghribDuration
            /\ calc.asrCoefficient =
                 IF supplied.AsrConvention = "Hanafi" THEN 2 ELSE 1

\* C6, reached: an Init with one override given and two left to a method
\* whose defaults are not all zero, under Hanafi.
C6_Witness ==
    /\ phase = "Finalized"
    /\ supplied.CalculationMethod = "UmmAlQura"
    /\ supplied.AsrConvention = "Hanafi"
    /\ supplied.FajrAngle = 0
    /\ supplied.IshaAngle # 0
    /\ supplied.MaghribDuration = 0
    /\ calc.MaghribDuration # 0

\* C7: after any sequence of SetDate calls the per-date state is that of a
\* freshly Init'ed calculator of the same configuration on which only the
\* latest SetDate was called: the date is 12:00 local time of the argument's
\* calendar day, the timezone is its offset, and every result is the fresh
\* calculator's.
C7_SetDateReplaces ==
    phase = "Dated" =>
        LET fresh == SetDateCalc(InitCalc(NewCalculator(supplied)), dateArg)
        IN  /\ calc = fresh
            /\ calc.date.off = dateArg.off
            /\ calc.date.unix + calc.date.off =
                 LocalDay(dateArg) * SecondsPerDay + 12 * 3600
            /\ calc.timezone * 3600 = dateArg.off * HourScale
            /\ calc.transitTime = getTransitTime(fresh, Convert(fresh.date))
            /\ calc.sunDeclination = getSunDeclination(fresh, Convert(fresh.date))
            /\ last.op = "Calculate" =>
                 LET r == Calculate(fresh, last.target)
                 IN  last.time = r.time /\ last.flag = r.flag
            /\ last.op = "CalculateAll" => last.all = CalculateAll(fresh)

\* C7, reached: a time computed after a second SetDate.
C7_Witness ==
    /\ phase = "Dated"
    /\ setDateCalls >= 2
    /\ last.op = "Calculate"
    /\ Computed(last)

\* C8: Calculate and CalculateAll never modify the calculator, so under any
\* interleaving of concurrent calls on a dated instance, with no Init or
\* SetDate in between, every call returns what it returns when run alone.
C8_ConcurrentCalls ==
    /\ phase = "Dated" =>
          calc = SetDateCalc(InitCalc(NewCalculator(supplied)), dateArg)
    /\ \A p \in Callers :
          calls[p].pc = "returned" =>
             /\ calls[p].recv = calc
             /\ calls[p].op = "Calculate" =>
                   LET alone == Calculate(calc, calls[p].asked)
                   IN  calls[p].time = alone.time /\ calls[p].flag = alone.flag
             /\ calls[p].op = "CalculateAll" => calls[p].all = CalculateAll(calc)

\* C8, reached: a CalculateAll returns while a Calculate of the other caller
\* is in the middle of its loop, its transit time refined off the date's.
C8_Witness ==
    /\ calls["a"].pc = "returned"
    /\ calls["a"].op = "CalculateAll"
    /\ calls["b"].pc = "running"
    /\ calls["b"].op = "Calculate"
    /\ calls["b"].L.i >= 1
    /\ calls["b"].L.transitTime # calc.transitTime

\* C9: Calculate(Zuhr) computes no sun altitude, makes no hour-angle solve,
\* and returns the date's transit time (with Zuhr's corrections).
C9_NoLoopForZuhr ==
    (last.op = "Calculate" /\ last.target = Zuhr) =>
        /\ last.altCalls = 0
        /\ Len(last.iters) = 0
        /\ last.time = hoursToTime(calc,
                WithTimeCorrection(calc, Zuhr,
                    WithAngleCorrection(calc, Zuhr, calc.transitTime)))

\* the candidate hour of one pass, for the target whose corrections apply
ExpectedHours(target, pass) ==
    LET base  == IF target > Zuhr THEN pass.transitTime + DegreesDiv15(pass.hourAngle)
                 ELSE IF target < Zuhr THEN pass.transitTime - DegreesDiv15(pass.hourAngle)
                 ELSE pass.transitTime
        angle == IF target \in DOMAIN calc.AngleCorrection
                 THEN DegreesDiv15(calc.AngleCorrection[target]) ELSE 0
        time  == IF target \in DOMAIN calc.TimeCorrection
                 THEN calc.TimeCorrection[target] ELSE 0
    IN  base + angle + time

\* C10 as the specification states it: in every pass of every Calculate(target) call the candidate
\* hour is the transit plus, minus or without hourAngle/15 by the target's
\* place relative to Zuhr, plus the target's own angle correction over 15 and
\* its own time correction.
C10_EveryCallOwnCorrections ==
    last.op = "Calculate" =>
        \A k \in DOMAIN last.iters :
            ~last.iters[k].isNA =>
                last.iters[k].hours = ExpectedHours(last.target, last.iters[k])

\* C10 as amended: the same, for every call off the fixed-duration path; on
\* that path (Isha with a non-zero MaghribDuration) the passes are Maghrib's,
\* with Maghrib's corrections, and Isha's own corrections are not applied.
C10_CandidateHours ==
    last.op = "Calculate" =>
        \A k \in DOMAIN last.iters :
            ~last.iters[k].isNA =>
                last.iters[k].hours =
                    ExpectedHours(IF OnDurationPath THEN Maghrib ELSE last.target,
                                  last.iters[k])

\* C10, reached: an available Isha off the fixed-duration path, with
\* corrections of its own in both tables, refined over several passes.
C10_Witness ==
    /\ last.op = "Calculate"
    /\ last.target = Isha
    /\ ~OnDurationPath
    /\ Computed(last)
    /\ Len(last.iters) >= 2
    /\ Isha \in DOMAIN calc.AngleCorrection
    /\ Isha \in DOMAIN calc.TimeCorrection

====
